---- MODULE Spec2Model ----
(***************************************************************************)
(* Message-board backend (FastAPI + SQLAlchemy + python-jose).             *)
(* State: the users and messages tables, the clock, the tokens minted so   *)
(* far, and the last request with its response.  One action per endpoint   *)
(* of main.py, each built from operators that follow db/crud.py and        *)
(* main.py statement by statement.                                         *)
(***************************************************************************)
EXTENDS Integers, FiniteSets, Sequences, TLC

\* ------------------------------------------------------------- bounds
Usernames == {"alice", "Alice"}
\* Passwords chosen at registration, and the ones tried at login.
RegisterPasswords == {"pw1"}
Passwords == {"pw1", "pw2"}
Texts == {"hi"}
Votes == {"up", "down"}
MaxEpoch == 1
MaxIssued == 2
\* Messages posted and votes per message in the message-service
\* specification, and in the specification of all endpoints together.
MaxMsgs == 1
MaxVotes == 2
SmallMsgs == 1
SmallVotes == 1
\* Messages posted in the specification of the message board.
BoardMsgs == 2
\* Messages posted in the specification of concurrent votes and deletes.
RaceMsgs == 1
\* Worker processes serving requests concurrently.
NumWorkers == 2
Workers == 1..NumWorkers
NumProcs == 3
Procs == 1..NumProcs

\* ---------------------------------------------------------- constants
ACCESS_TOKEN_EXPIRE_MINUTES == 30
HTTP_401_UNAUTHORIZED == 401

\* A claim set without a "sub" entry.
NoSub == "<missing>"
\* The instants the clock is sampled at: the start, and for each later
\* epoch the instant a token minted one window earlier is still valid and
\* the first instant it has expired.
SampleTimes ==
    {0} \cup {k * ACCESS_TOKEN_EXPIRE_MINUTES + e : k \in 1..MaxEpoch, e \in {0, 1}}
\* The ids a caller may name: the ones that can exist and one that cannot.
MessageIds(cap) == 1..(cap + 1)

\* call: the requests in flight, one per worker process.
VARIABLES users, messages, message_seq, now, issued, req, resp, reg, call

vars == <<users, messages, message_seq, now, issued, req, resp, reg, call>>

\* --------------------------------------------------- password hasher
\* pwd_context.hash: one-way, so modelled as a tagged value, never the
\* plaintext itself.
pwd_hash(password) == <<"bcrypt", password>>

validate_password(password, hashed_password) ==
    hashed_password = pwd_hash(password)

\* ------------------------------------------------------- token codec
\* A token is the signed claim set: sub, exp and whether the signature
\* verifies under SECRET_KEY.
\* Mutant: expires_delta is dropped and the default of 15 minutes used.
create_access_token_default(sub, expires_delta, time) ==
    [sub |-> sub, exp |-> time + 15, sig |-> TRUE]

create_access_token(sub, expires_delta, time) ==
    [sub |-> sub, exp |-> time + expires_delta, sig |-> TRUE]

\* Mutant: the signature is not verified.
jwt_decode_unverified(token, verify_exp, time) ==
    IF verify_exp /\ token.exp < time
    THEN [err |-> "ExpiredSignatureError", sub |-> NoSub]
    ELSE [err |-> "", sub |-> token.sub]

\* python-jose: the signature is verified first, then exp (expired iff
\* exp < now) unless verify_exp is off.
jwt_decode(token, verify_exp, time) ==
    IF ~token.sig
    THEN [err |-> "JWTError", sub |-> NoSub]
    ELSE IF verify_exp /\ token.exp < time
         THEN [err |-> "ExpiredSignatureError", sub |-> NoSub]
         ELSE [err |-> "", sub |-> token.sub]

\* ------------------------------------------------------------ storage
\* The column comparison of the store (exact string match).
SameUsername(a, b) == a = b

\* .first(): the matching row with the lowest id, as a set of at most one.
crud_get_user_by_name(db, username) ==
    LET hit == {r \in db : SameUsername(r.username, username)}
    IN  {r \in hit : \A q \in hit : r.id <= q.id}

\* unique=True on users.username: the insert fails when the name is taken.
UniqueViolation(db, username) ==
    \E r \in db : SameUsername(r.username, username)

crud_create_user(db, username, hashed_password) ==
    db \cup {[id |-> Cardinality(db) + 1,
              username |-> username,
              hashed_password |-> hashed_password,
              logged_in |-> FALSE]}

\* Mutant: the update has no filter on the row.
crud_login_user_all(db, db_user) ==
    {[r EXCEPT !.logged_in = TRUE] : r \in db}

crud_login_user(db, db_user) ==
    {IF r.id = db_user.id THEN [r EXCEPT !.logged_in = TRUE] ELSE r : r \in db}

\* Mutant: the change of the flag is never committed.
crud_logout_user_uncommitted(db, db_user) == db

crud_logout_user(db, db_user) ==
    {IF r.id = db_user.id THEN [r EXCEPT !.logged_in = FALSE] ELSE r : r \in db}

\* ------------------------------------------------------- validate_token
\* The outcome of validate_token: the HTTP status (200: the user is
\* returned), the detail, the user returned and the users table afterwards.
Outcome(status, detail, user, db) ==
    [status |-> status, detail |-> detail, user |-> user, users |-> db]

credentials_exception(db) ==
    Outcome(HTTP_401_UNAUTHORIZED, "Could not validate credentials", {}, db)

\* except ExpiredSignatureError: decode again without verify_exp, take
\* ["sub"] (KeyError when absent: an unhandled exception, HTTP 500).
validate_token_expired(token, db, time) ==
    LET payload == jwt_decode(token, FALSE, time)
        found == crud_get_user_by_name(db, payload.sub)
    IN  IF payload.sub = NoSub
        THEN Outcome(500, "KeyError: 'sub'", {}, db)
        ELSE IF found = {}
             THEN credentials_exception(db)
             ELSE Outcome(400, "JWT Expired.", {},
                          crud_logout_user(db, CHOOSE r \in found : TRUE))

\* Mutant: a logged-out user is answered with credentials_exception.
validate_token_flag_401(token, db, time) ==
    LET payload == jwt_decode(token, TRUE, time)
        found == crud_get_user_by_name(db, payload.sub)
    IN  CASE payload.err = "ExpiredSignatureError" ->
                validate_token_expired(token, db, time)
          [] payload.err = "JWTError" -> credentials_exception(db)
          [] OTHER ->
                IF payload.sub = NoSub THEN credentials_exception(db)
                ELSE IF found = {} THEN credentials_exception(db)
                ELSE IF (CHOOSE r \in found : TRUE).logged_in = FALSE
                     THEN credentials_exception(db)
                     ELSE Outcome(200, "", found, db)

validate_token(token, db, time) ==
    LET payload == jwt_decode(token, TRUE, time)
        found == crud_get_user_by_name(db, payload.sub)
    IN  CASE payload.err = "ExpiredSignatureError" ->
                validate_token_expired(token, db, time)
          [] payload.err = "JWTError" -> credentials_exception(db)
          [] OTHER ->
                IF payload.sub = NoSub THEN credentials_exception(db)
                ELSE IF found = {} THEN credentials_exception(db)
                ELSE IF (CHOOSE r \in found : TRUE).logged_in = FALSE
                     THEN Outcome(400, "User is not logged in.", {}, db)
                     ELSE Outcome(200, "", found, db)

\* ------------------------------------------------- requests, responses
Request(op, token, username, password, id, vote, text) ==
    [op |-> op, token |-> token, username |-> username, password |-> password,
     id |-> id, vote |-> vote, text |-> text]

\* detail: the error detail or the text returned; token, token_type: the
\* login body; user: the user validate_token returned; msgs: the rows listed.
Response(status, detail, token, token_type, user, msgs) ==
    [status |-> status, detail |-> detail, token |-> token,
     token_type |-> token_type, user |-> user, msgs |-> msgs]

\* ------------------------------------------------------ session manager
\* POST /register: the lookup, then the insert.  The insert raises
\* IntegrityError (unhandled: HTTP 500) when the unique index rejects it.
create_user_insert(db, username, password) ==
    IF UniqueViolation(db, username)
    THEN [status |-> 500, detail |-> "IntegrityError", users |-> db]
    ELSE [status |-> 201, detail |-> "Successfully added new user to database.",
          users |-> crud_create_user(db, username, pwd_hash(password))]

\* Mutant: the lookup before the insert is left out.
create_user_no_lookup(db, username, password) ==
    create_user_insert(db, username, password)

create_user(db, username, password) ==
    IF crud_get_user_by_name(db, username) # {}
    THEN [status |-> 400, detail |-> "Username already registered", users |-> db]
    ELSE create_user_insert(db, username, password)

\* Mutant: no check of logged_in, every correct Login mints a token.
login_user_always_mints(db, username, password, time) ==
    LET found == crud_get_user_by_name(db, username)
        db_user == CHOOSE r \in found : TRUE
        fail == [status |-> 400, detail |-> "Incorrect username or password",
                 token |-> {}, token_type |-> "", users |-> db]
    IN  IF found = {} THEN fail
        ELSE IF validate_password(password, db_user.hashed_password) = FALSE
             THEN fail
        ELSE [status |-> 200, detail |-> "",
              token |-> {create_access_token(username,
                                             ACCESS_TOKEN_EXPIRE_MINUTES, time)},
              token_type |-> "bearer",
              users |-> crud_login_user(db, db_user)]

\* POST /login.
login_user(db, username, password, time) ==
    LET found == crud_get_user_by_name(db, username)
        db_user == CHOOSE r \in found : TRUE
        fail == [status |-> 400, detail |-> "Incorrect username or password",
                 token |-> {}, token_type |-> "", users |-> db]
    IN  IF found = {} THEN fail
        ELSE IF validate_password(password, db_user.hashed_password) = FALSE
             THEN fail
        ELSE IF db_user.logged_in
             THEN [status |-> 200, detail |-> "User already logged in.",
                   token |-> {}, token_type |-> "", users |-> db]
        ELSE [status |-> 200, detail |-> "",
              token |-> {create_access_token(username,
                                             ACCESS_TOKEN_EXPIRE_MINUTES, time)},
              token_type |-> "bearer",
              users |-> crud_login_user(db, db_user)]

\* GET /logout.
logout_user(token, db, time) ==
    LET v == validate_token(token, db, time) IN
    IF v.status # 200 THEN v
    ELSE Outcome(200, "User logout successful.", v.user,
                 crud_logout_user(v.users, CHOOSE r \in v.user : TRUE))

\* ------------------------------------------------------ message service
crud_get_all_messages(msgs) == msgs

crud_post_message(msgs, seq, text, db_user) ==
    msgs \cup {[id |-> seq, author_id |-> db_user.id, message |-> text,
                vote_count |-> 0]}

\* .first() on the primary key: the row with that id, as a set of at most
\* one.
crud_get_message(msgs, message_id) ==
    {m \in msgs : m.id = message_id}

\* Mutant: the second branch tests Vote.UP again, a down vote does nothing.
crud_vote_for_message_up_only(msgs, db_message, vote) ==
    LET count == IF vote = "up" THEN db_message.vote_count + 1
                 ELSE db_message.vote_count
    IN  {IF m.id = db_message.id THEN [m EXCEPT !.vote_count = count] ELSE m
         : m \in msgs}

crud_vote_for_message(msgs, db_message, vote) ==
    LET count == IF vote = "up" THEN db_message.vote_count + 1
                 ELSE IF vote = "down" THEN db_message.vote_count - 1
                 ELSE db_message.vote_count
    IN  {IF m.id = db_message.id THEN [m EXCEPT !.vote_count = count] ELSE m
         : m \in msgs}

\* Mutant: the delete has no filter on the id.
crud_delete_message_all(msgs, message_id) == {}

crud_delete_message(msgs, message_id) ==
    {m \in msgs : m.id # message_id}

\* Mutant: the query has no filter on the author.
crud_get_user_messages_all(msgs, db_user) == msgs

crud_get_user_messages(msgs, db_user) ==
    {m \in msgs : m.author_id = db_user.id}

\* The outcome of a message endpoint: status, detail, the rows returned,
\* and the users table, messages table and id sequence afterwards.
MsgOutcome(status, detail, rows, db, msgs, seq) ==
    [status |-> status, detail |-> detail, rows |-> rows, users |-> db,
     messages |-> msgs, message_seq |-> seq]

\* GET /messages.
get_all_messages(token, db, msgs, seq, time) ==
    LET v == validate_token(token, db, time) IN
    IF v.status # 200 THEN MsgOutcome(v.status, v.detail, {}, v.users, msgs, seq)
    ELSE MsgOutcome(200, "", crud_get_all_messages(msgs), v.users, msgs, seq)

\* POST /messages.
post_message(token, text, db, msgs, seq, time) ==
    LET v == validate_token(token, db, time) IN
    IF v.status # 200 THEN MsgOutcome(v.status, v.detail, {}, v.users, msgs, seq)
    ELSE MsgOutcome(201, "Message posted successfully.", {}, v.users,
                    crud_post_message(msgs, seq, text, CHOOSE r \in v.user : TRUE),
                    seq + 1)

\* POST /messages/{message_id}/vote.
vote_for_message(token, message_id, vote, db, msgs, seq, time) ==
    LET v == validate_token(token, db, time)
        db_message == crud_get_message(msgs, message_id)
    IN  IF v.status # 200
        THEN MsgOutcome(v.status, v.detail, {}, v.users, msgs, seq)
        ELSE IF db_message = {}
        THEN MsgOutcome(400, "Did not find message in database.", {}, v.users,
                        msgs, seq)
        ELSE MsgOutcome(201, "Vote registered successfully.", {}, v.users,
                        crud_vote_for_message(msgs, CHOOSE m \in db_message : TRUE,
                                              vote),
                        seq)

\* Mutant: validate_token is called without await and never runs.
delete_message_unvalidated(token, message_id, db, msgs, seq, time) ==
    LET db_message == crud_get_message(msgs, message_id)
    IN  IF db_message = {}
        THEN MsgOutcome(400, "Cannot find message ID.", {}, db, msgs, seq)
        ELSE MsgOutcome(200, "Message deleted successfully.", {}, db,
                        crud_delete_message(msgs, message_id), seq)

\* DELETE /messages/{message_id}.
delete_message(token, message_id, db, msgs, seq, time) ==
    LET v == validate_token(token, db, time)
        db_message == crud_get_message(msgs, message_id)
    IN  IF v.status # 200
        THEN MsgOutcome(v.status, v.detail, {}, v.users, msgs, seq)
        ELSE IF db_message = {}
        THEN MsgOutcome(400, "Cannot find message ID.", {}, v.users, msgs, seq)
        ELSE MsgOutcome(200, "Message deleted successfully.", {}, v.users,
                        crud_delete_message(msgs, message_id), seq)

\* GET /user/messages.
get_user_messages(token, db, msgs, seq, time) ==
    LET v == validate_token(token, db, time) IN
    IF v.status # 200 THEN MsgOutcome(v.status, v.detail, {}, v.users, msgs, seq)
    ELSE MsgOutcome(200, "",
                    crud_get_user_messages(msgs, CHOOSE r \in v.user : TRUE),
                    v.users, msgs, seq)

\* The tokens a caller may present: the ones minted so far, and claim sets
\* made by hand with expiry 0 (not expired at the start, expired later):
\* signed with the key for each subject and for none, and one forged.
Presentable ==
    issued \cup [sub : Usernames \cup {NoSub}, exp : {0}, sig : {TRUE}]
           \cup [sub : {"alice"}, exp : {0}, sig : {FALSE}]

\* A request in flight: where it stands (idle, commit, done), what it read
\* in its first step (seen) and its response once done.
Call(pc, op, token, username, id, vote, seen, status, detail) ==
    [pc |-> pc, op |-> op, token |-> token, username |-> username, id |-> id,
     vote |-> vote, seen |-> seen, status |-> status, detail |-> detail]

IdleCall == Call("idle", "", {}, "", 0, "", {}, 0, "")

Init ==
    /\ users = {}
    /\ messages = {}
    /\ message_seq = 1
    /\ now = 0
    /\ issued = {}
    /\ req = Request("none", {}, "", "", 0, "", "")
    /\ resp = Response(0, "", {}, "", {}, {})
    /\ reg = [p \in Procs |-> [pc |-> "idle", username |-> "", password |-> "",
                               status |-> 0, detail |-> ""]]
    /\ call = [p \in Workers |-> IdleCall]

\* ------------------------------------------- the endpoints, one by one

\* Mutant: a timer logs out the users whose tokens have all expired.
Tick_expiring ==
    /\ \E t \in SampleTimes :
          /\ t > now
          /\ now' = t
          /\ users' = {IF \A k \in issued : k.sub = r.username => k.exp < t
                       THEN [r EXCEPT !.logged_in = FALSE] ELSE r : r \in users}
    /\ UNCHANGED <<messages, message_seq, issued, req, resp, reg, call>>

\* The clock: time passes, nothing else changes.
Tick ==
    /\ \E t \in SampleTimes : t > now /\ now' = t
    /\ UNCHANGED <<users, messages, message_seq, issued, req, resp, reg, call>>

\* validate_token on its own (every authenticated endpoint starts with it).
ValidateToken ==
    \E t \in Presentable :
        LET r == validate_token(t, users, now) IN
        /\ req' = Request("validate", {t}, "", "", 0, "", "")
        /\ resp' = Response(r.status, r.detail, {}, "", r.user, {})
        /\ users' = r.users
        /\ UNCHANGED <<messages, message_seq, now, issued, reg, call>>

Register ==
    \E u \in Usernames, p \in RegisterPasswords :
        LET r == create_user(users, u, p) IN
        /\ req' = Request("register", {}, u, p, 0, "", "")
        /\ resp' = Response(r.status, r.detail, {}, "", {}, {})
        /\ users' = r.users
        /\ UNCHANGED <<messages, message_seq, now, issued, reg, call>>

Login ==
    \E u \in Usernames, p \in Passwords :
        LET r == login_user(users, u, p, now) IN
        /\ Cardinality(issued \cup r.token) <= MaxIssued
        /\ req' = Request("login", {}, u, p, 0, "", "")
        /\ resp' = Response(r.status, r.detail, r.token, r.token_type, {}, {})
        /\ users' = r.users
        /\ issued' = issued \cup r.token
        /\ UNCHANGED <<messages, message_seq, now, reg, call>>

Logout ==
    \E t \in Presentable :
        LET r == logout_user(t, users, now) IN
        /\ req' = Request("logout", {t}, "", "", 0, "", "")
        /\ resp' = Response(r.status, r.detail, {}, "", r.user, {})
        /\ users' = r.users
        /\ UNCHANGED <<messages, message_seq, now, issued, reg, call>>

\* A message endpoint's step: the request, its outcome r.
MessageStep(request, r) ==
    /\ req' = request
    /\ resp' = Response(r.status, r.detail, {}, "", {}, r.rows)
    /\ users' = r.users
    /\ messages' = r.messages
    /\ message_seq' = r.message_seq
    /\ UNCHANGED <<now, issued, reg, call>>

GetAllMessages ==
    \E t \in Presentable :
        MessageStep(Request("get_all_messages", {t}, "", "", 0, "", ""),
                    get_all_messages(t, users, messages, message_seq, now))

PostMessage(cap) ==
    \E t \in Presentable, x \in Texts :
        /\ message_seq <= cap
        /\ MessageStep(Request("post_message", {t}, "", "", 0, "", x),
                       post_message(t, x, users, messages, message_seq, now))

VoteForMessage(cap, votecap) ==
    \E t \in Presentable, i \in MessageIds(cap), v \in Votes :
        LET r == vote_for_message(t, i, v, users, messages, message_seq, now) IN
        /\ \A m \in r.messages : m.vote_count \in -votecap..votecap
        /\ MessageStep(Request("vote_for_message", {t}, "", "", i, v, ""), r)

DeleteMessage(cap) ==
    \E t \in Presentable, i \in MessageIds(cap) :
        MessageStep(Request("delete_message", {t}, "", "", i, "", ""),
                    delete_message(t, i, users, messages, message_seq, now))

GetUserMessages ==
    \E t \in Presentable :
        MessageStep(Request("get_user_messages", {t}, "", "", 0, "", ""),
                    get_user_messages(t, users, messages, message_seq, now))

\* The session manager alone.
NextSession ==
    \/ Tick
    \/ Register
    \/ Login
    \/ Logout
    \/ ValidateToken

SpecSession == Init /\ [][NextSession]_vars

\* The message service, its callers registered and logged in.
NextMsg ==
    \/ Register
    \/ Login
    \/ GetAllMessages
    \/ PostMessage(MaxMsgs)
    \/ VoteForMessage(MaxMsgs, MaxVotes)
    \/ DeleteMessage(MaxMsgs)
    \/ GetUserMessages

SpecMsg == Init /\ [][NextMsg]_vars

\* The message board: several messages of several authors.
NextBoard ==
    \/ Register
    \/ Login
    \/ GetAllMessages
    \/ PostMessage(BoardMsgs)
    \/ VoteForMessage(BoardMsgs, SmallVotes)
    \/ DeleteMessage(BoardMsgs)
    \/ GetUserMessages

SpecBoard == Init /\ [][NextBoard]_vars

\* Every endpoint.
Next ==
    \/ Tick
    \/ GetAllMessages
    \/ PostMessage(SmallMsgs)
    \/ VoteForMessage(SmallMsgs, SmallVotes)
    \/ DeleteMessage(SmallMsgs)
    \/ GetUserMessages
    \/ Register
    \/ Login
    \/ Logout
    \/ ValidateToken

Spec == Init /\ [][Next]_vars
\* ------------------------------------------- concurrent registrations
\* POST /register as two steps of a request p with its own session: the
\* lookup (main.py 148-151), then the hash and the insert (153-160).
RegLookup(p) ==
    \E u \in Usernames, pw \in RegisterPasswords :
        /\ reg[p].pc = "idle"
        /\ reg' = [reg EXCEPT ![p] =
                IF crud_get_user_by_name(users, u) # {}
                THEN [pc |-> "done", username |-> u, password |-> pw,
                      status |-> 400, detail |-> "Username already registered"]
                ELSE [pc |-> "insert", username |-> u, password |-> pw,
                      status |-> 0, detail |-> ""]]
        /\ UNCHANGED <<users, messages, message_seq, now, issued, req, resp, call>>

RegInsert(p) ==
    LET r == create_user_insert(users, reg[p].username, reg[p].password) IN
    /\ reg[p].pc = "insert"
    /\ users' = r.users
    /\ reg' = [reg EXCEPT ![p].pc = "done", ![p].status = r.status,
                          ![p].detail = r.detail]
    /\ UNCHANGED <<messages, message_seq, now, issued, req, resp, call>>

NextReg == \E p \in Procs : RegLookup(p) \/ RegInsert(p)

SpecReg == Init /\ [][NextReg]_vars

\* ---------------------------------- concurrent votes, deletes and logins
\* A handler in a worker process p with a session of its own, as two steps:
\* the reads up to the existence check, then the write and its commit.
\* The tokens the concurrent callers present: a minted one or a forged one.
RaceTokens == issued \cup [sub : {"alice"}, exp : {0}, sig : {FALSE}]

\* POST /messages/{id}/vote, first step: validate_token and crud.get_message
\* (main.py 263-268).
VoteLookup(p) ==
    \E t \in RaceTokens, i \in MessageIds(RaceMsgs), vote \in Votes :
        LET v == validate_token(t, users, now)
            db_message == crud_get_message(messages, i)
        IN  /\ call[p].pc = "idle"
            /\ users' = v.users
            /\ call' = [call EXCEPT ![p] =
                    IF v.status # 200
                    THEN Call("done", "vote", {t}, "", i, vote, {}, v.status, v.detail)
                    ELSE IF db_message = {}
                    THEN Call("done", "vote", {t}, "", i, vote, {}, 400,
                              "Did not find message in database.")
                    ELSE Call("commit", "vote", {t}, "", i, vote, db_message, 0, "")]
            /\ UNCHANGED <<messages, message_seq, now, issued, req, resp, reg>>

\* Second step: crud.vote_for_message (crud.py 63-73) adds to the count the
\* session loaded in the first step and commits.  The UPDATE of a row that
\* is gone matches nothing: StaleDataError, unhandled (HTTP 500).
VoteCommit(p) ==
    /\ call[p].pc = "commit"
    /\ call[p].op = "vote"
    /\ IF crud_get_message(messages, call[p].id) = {}
       THEN /\ call' = [call EXCEPT ![p].pc = "done", ![p].status = 500,
                                    ![p].detail = "StaleDataError"]
            /\ UNCHANGED messages
       ELSE /\ messages' = crud_vote_for_message(
                               messages, CHOOSE m \in call[p].seen : TRUE,
                               call[p].vote)
            /\ call' = [call EXCEPT ![p].pc = "done", ![p].status = 201,
                                    ![p].detail = "Vote registered successfully."]
    /\ UNCHANGED <<users, message_seq, now, issued, req, resp, reg>>

\* DELETE /messages/{id}, first step: validate_token and crud.get_message
\* (main.py 287-292).
DeleteLookup(p) ==
    \E t \in RaceTokens, i \in MessageIds(RaceMsgs) :
        LET v == validate_token(t, users, now)
            db_message == crud_get_message(messages, i)
        IN  /\ call[p].pc = "idle"
            /\ users' = v.users
            /\ call' = [call EXCEPT ![p] =
                    IF v.status # 200
                    THEN Call("done", "delete", {t}, "", i, "", {}, v.status, v.detail)
                    ELSE IF db_message = {}
                    THEN Call("done", "delete", {t}, "", i, "", {}, 400,
                              "Cannot find message ID.")
                    ELSE Call("commit", "delete", {t}, "", i, "", db_message, 0, "")]
            /\ UNCHANGED <<messages, message_seq, now, issued, req, resp, reg>>

\* Second step: crud.delete_message (crud.py 76-83), a bulk DELETE by id
\* that succeeds whether or not a row matched.
DeleteCommit(p) ==
    /\ call[p].pc = "commit"
    /\ call[p].op = "delete"
    /\ messages' = crud_delete_message(messages, call[p].id)
    /\ call' = [call EXCEPT ![p].pc = "done", ![p].status = 200,
                            ![p].detail = "Message deleted successfully."]
    /\ UNCHANGED <<users, message_seq, now, issued, req, resp, reg>>

\* Concurrent votes and deletes on a board filled by Register, Login and
\* PostMessage.
NextRace ==
    \/ Register
    \/ Login
    \/ PostMessage(RaceMsgs)
    \/ \E p \in Workers : VoteLookup(p)
    \/ \E p \in Workers : VoteCommit(p)
    \/ \E p \in Workers : DeleteLookup(p)
    \/ \E p \in Workers : DeleteCommit(p)

SpecRace == Init /\ [][NextRace]_vars

\* POST /login, first step: the lookup, the password check, the test of
\* logged_in and the minting of the token (main.py 173-186).
LoginRead(p) ==
    \E u \in Usernames, pw \in Passwords :
        LET found == crud_get_user_by_name(users, u)
            db_user == CHOOSE r \in found : TRUE
        IN  /\ call[p].pc = "idle"
            /\ call' = [call EXCEPT ![p] =
                    IF found = {}
                    THEN Call("done", "login", {}, u, 0, "", {}, 400,
                              "Incorrect username or password")
                    ELSE IF validate_password(pw, db_user.hashed_password) = FALSE
                    THEN Call("done", "login", {}, u, 0, "", {}, 400,
                              "Incorrect username or password")
                    ELSE IF db_user.logged_in
                    THEN Call("done", "login", {}, u, 0, "", {}, 200,
                              "User already logged in.")
                    ELSE Call("commit", "login",
                              {create_access_token(u, ACCESS_TOKEN_EXPIRE_MINUTES, now)},
                              u, 0, "", found, 0, "")]
            /\ UNCHANGED <<users, messages, message_seq, now, issued, req, resp, reg>>

\* Second step: crud.login_user (crud.py 25-30) and the token returned
\* (main.py 188-193).
LoginCommit(p) ==
    /\ call[p].pc = "commit"
    /\ call[p].op = "login"
    /\ users' = crud_login_user(users, CHOOSE r \in call[p].seen : TRUE)
    /\ issued' = issued \cup call[p].token
    /\ call' = [call EXCEPT ![p].pc = "done", ![p].status = 200]
    /\ UNCHANGED <<messages, message_seq, now, req, resp, reg>>

\* Concurrent logins of registered users, nobody logging out.
NextLogins ==
    \/ Register
    \/ \E p \in Workers : LoginRead(p)
    \/ \E p \in Workers : LoginCommit(p)

SpecLogins == Init /\ [][NextLogins]_vars

\* ----------------------------------------------------------- properties
\* The step is a request of endpoint op (the clock stands still in it).
Acted(op) == now' = now /\ req'.op = op

Presented(request) == CHOOSE t \in request.token : TRUE

Registered(db, username) == \E r \in db : r.username = username

LoggedIn(db, username) == \E r \in db : r.username = username /\ r.logged_in

CorrectCredentials(db, username, password) ==
    \E r \in db : /\ r.username = username
                  /\ validate_password(password, r.hashed_password)

\* The condition C1 puts on every step.
C1_Step ==
    /\ (/\ Acted("validate")
        /\ Presented(req').sig
        /\ Presented(req').exp < now
        /\ Registered(users, Presented(req').sub))
       => /\ resp'.status = 400
          /\ resp'.detail = "JWT Expired."
          /\ resp'.user = {}
          /\ ~LoggedIn(users', Presented(req').sub)
    /\ (/\ req.op = "validate"
        /\ resp.detail = "JWT Expired."
        /\ Acted("login")
        /\ req'.username = Presented(req).sub
        /\ CorrectCredentials(users, req'.username, req'.password))
       => /\ resp'.status = 200
          /\ resp'.detail # "User already logged in."
          /\ resp'.token = {[sub |-> req'.username,
                             exp |-> now + ACCESS_TOKEN_EXPIRE_MINUTES,
                             sig |-> TRUE]}
          /\ Presented(req) \notin resp'.token

\* C1: a validly signed, expired token whose subject is a registered user
\* makes ValidateToken fail with Expired and leaves that user logged out,
\* whatever the flag was; a Login of that user with the correct password
\* that comes next returns a fresh token, not "already logged in".
C1_ExpiredTokenLogsOut == [][C1_Step]_vars

\* C1 witness: a token minted by Login was presented after its expiry and
\* answered Expired, and its user is logged out.
C1_Witness ==
    /\ req.op = "validate"
    /\ req.token \subseteq issued
    /\ resp.detail = "JWT Expired."
    /\ Registered(users, Presented(req).sub)
    /\ ~LoggedIn(users, Presented(req).sub)

\* The condition C2 puts on every step.
C2_Accepts(t) ==
    /\ t.sig
    /\ ~(t.exp < now)
    /\ LoggedIn(users, t.sub)

C2_Step ==
    Acted("validate") =>
        /\ (resp'.user # {}) <=> C2_Accepts(Presented(req'))
        /\ resp'.user # {} =>
              /\ resp'.status = 200
              /\ resp'.user = {r \in users : r.username = Presented(req').sub}
              /\ Cardinality(resp'.user) = 1
        /\ resp'.user = {} => resp'.status # 200

\* C2: ValidateToken returns a User exactly when the signature is valid,
\* the expiry has not passed, the subject is a registered user and that
\* user is logged in; the User returned is the subject's; otherwise it
\* fails and returns none.
C2_ValidateReturnsUserIff == [][C2_Step]_vars

\* C2 witness: ValidateToken returned the user of a token.
C2_Witness ==
    /\ req.op = "validate"
    /\ resp.status = 200
    /\ \E r \in resp.user : r.username = Presented(req).sub /\ r.logged_in

\* The condition C3 puts on every step.
C3_Step ==
    /\ (Acted("logout") /\ resp'.status = 200)
       => /\ Registered(users', Presented(req').sub)
          /\ ~LoggedIn(users', Presented(req').sub)
    /\ (/\ Acted("validate")
        /\ Presented(req').sig
        /\ ~(Presented(req').exp < now)
        /\ Registered(users, Presented(req').sub)
        /\ ~LoggedIn(users, Presented(req').sub))
       => /\ resp'.status = 400
          /\ resp'.detail = "User is not logged in."
          /\ UNCHANGED <<users, messages, message_seq, issued>>

\* C3: a successful Logout leaves the user logged out, and while the user
\* is logged out a validly signed, unexpired token with that subject is
\* answered NotLoggedIn (400), not 401, and nothing stored changes.
C3_LoggedOutTokenNotLoggedIn == [][C3_Step]_vars

\* C3 witness: a token minted by Login, not yet expired, was answered
\* NotLoggedIn.
C3_Witness ==
    /\ req.op = "validate"
    /\ req.token \subseteq issued
    /\ ~(Presented(req).exp < now)
    /\ resp.status = 400
    /\ resp.detail = "User is not logged in."

\* The condition C4 puts on every step.
C4_Step ==
    (/\ Acted("login")
     /\ CorrectCredentials(users, req'.username, req'.password)
     /\ LoggedIn(users, req'.username))
    => /\ resp'.status = 200
       /\ resp'.detail = "User already logged in."
       /\ resp'.token = {}
       /\ resp'.token_type = ""
       /\ UNCHANGED <<users, messages, message_seq, issued>>

\* C4: Login with the correct password of a logged-in user answers
\* "already logged in", mints no token and changes neither the store nor
\* the tokens issued.
C4_LoginWhileLoggedIn == [][C4_Step]_vars

\* C4 witness: a Login was answered "already logged in".
C4_Witness ==
    /\ req.op = "login"
    /\ resp.detail = "User already logged in."
    /\ LoggedIn(users, req.username)
    /\ issued # {}

\* The condition C5 puts on every step.
C5_Step ==
    /\ (/\ Acted("login")
        /\ CorrectCredentials(users, req'.username, req'.password)
        /\ ~LoggedIn(users, req'.username))
       => /\ resp'.status = 200
          /\ resp'.token = {[sub |-> req'.username, exp |-> now + 30,
                             sig |-> TRUE]}
          /\ resp'.token_type = "bearer"
          /\ resp'.token \subseteq issued'
          /\ LoggedIn(users', req'.username)
          /\ \A r \in users : r.username # req'.username => r \in users'
    /\ (/\ req.op = "login"
        /\ resp.token # {}
        /\ (CHOOSE t \in resp.token : TRUE).exp = now + 30
        /\ Acted("validate")
        /\ req'.token = resp.token)
       => /\ resp'.status = 200
          /\ \E r \in resp'.user : r.username = req.username

\* C5: Login with the correct password of a logged-out user mints the
\* token (subject the username, expiry now + 30 minutes), logs the user in
\* and returns the token as "bearer"; ValidateToken accepts that token
\* right afterwards.
C5_LoginMintsToken == [][C5_Step]_vars

\* C5 witness: the token a Login just returned was presented and accepted.
C5_Witness ==
    /\ req.op = "validate"
    /\ resp.status = 200
    /\ req.token \subseteq issued
    /\ Presented(req).exp = now + 30

\* The condition C6 puts on every step.
C6_Step ==
    /\ Acted("register") =>
          IF Registered(users, req'.username)
          THEN /\ resp'.status = 400
               /\ resp'.detail = "Username already registered"
               /\ UNCHANGED <<users, messages, message_seq, issued>>
          ELSE /\ resp'.status = 201
               /\ \E r \in users' :
                     /\ r.username = req'.username
                     /\ r.logged_in = FALSE
                     /\ r \notin users
                     /\ users' = users \cup {r}
    /\ (/\ req.op = "register"
        /\ resp.status = 201
        /\ Acted("register")
        /\ req'.username = req.username)
       => resp'.status = 400

\* C6: Register answers Conflict and changes nothing when that exact
\* username exists; otherwise it adds one user with that username, logged
\* out.  The same name twice fails the second time; a name differing only
\* in letter case is accepted.
C6_RegisterConflict == [][C6_Step]_vars

\* C6 witness: both spellings are registered, and the last Register, of a
\* name already taken, was answered Conflict.
C6_Witness ==
    /\ Registered(users, "alice")
    /\ Registered(users, "Alice")
    /\ Cardinality(users) = 2
    /\ req.op = "register"
    /\ resp.status = 400

\* C9 (as claimed): a token with an invalid signature or without a subject
\* is answered Unauthenticated (401), expired or not.
C9_Original ==
    (/\ req.op = "validate"
     /\ (~Presented(req).sig \/ Presented(req).sub = NoSub))
    => resp.status = 401
\* C7 (as claimed): under concurrent registrations no two users share a
\* username, and every Register that did not add its user was answered
\* Conflict (400).
C7_Original ==
    /\ \A r, q \in users : r.username = q.username => r = q
    /\ \A p \in Procs :
          (reg[p].pc = "done" /\ reg[p].status # 201) => reg[p].status = 400

\* The condition C8 puts on every step.
C8_OwnToken(n) ==
    /\ now' = now
    /\ req'.token # {}
    /\ Presented(req').sub = n
    /\ Presented(req').sig

C8_Step ==
    \A n \in Usernames :
        /\ (~Registered(users, n) /\ Registered(users', n))
           => (~LoggedIn(users', n) /\ Acted("register") /\ req'.username = n)
        /\ (~LoggedIn(users, n) /\ LoggedIn(users', n))
           => /\ Registered(users, n)
              /\ Acted("login")
              /\ req'.username = n
              /\ resp'.status = 200
              /\ resp'.token # {}
        /\ (LoggedIn(users, n) /\ ~LoggedIn(users', n))
           => /\ C8_OwnToken(n)
              /\ \/ (req'.op = "logout" /\ resp'.status = 200
                     /\ ~(Presented(req').exp < now))
                 \/ (resp'.detail = "JWT Expired." /\ Presented(req').exp < now)
        /\ (Registered(users, n) /\ ~Registered(users', n)) => FALSE

\* C8: a user is created logged out; the flag goes from false to true only
\* in a successful Login of that user, and from true to false only in a
\* Logout with a token of that user or when validate_token meets an
\* expired token of that user.
C8_FlagLifecycle == [][C8_Step]_vars

\* C8 witness: posting a message with an expired token minted by Login was
\* answered Expired, which logged its user out, while the other user is
\* still logged in.
C8_Witness ==
    /\ req.op = "post_message"
    /\ req.token \subseteq issued
    /\ resp.detail = "JWT Expired."
    /\ ~LoggedIn(users, Presented(req).sub)
    /\ \E r \in users : r.logged_in

\* The condition C10 puts on every step.
C10_Authenticated(request) ==
    validate_token(Presented(request), users, now).status = 200

C10_Delta(vote) == IF vote = "up" THEN 1 ELSE -1

C10_Step ==
    /\ (Acted("post_message") /\ resp'.status = 201)
       => \E m \in messages' :
             /\ m.vote_count = 0
             /\ m.id \notin {q.id : q \in messages}
             /\ messages' = messages \cup {m}
    /\ (Acted("vote_for_message") /\ C10_Authenticated(req'))
       => IF \E m \in messages : m.id = req'.id
          THEN /\ resp'.status = 201
               /\ \E m \in messages :
                     /\ m.id = req'.id
                     /\ messages' = (messages \ {m}) \cup
                           {[m EXCEPT !.vote_count =
                                 m.vote_count + C10_Delta(req'.vote)]}
               /\ UNCHANGED <<users, message_seq>>
          ELSE /\ resp'.status = 400
               /\ resp'.detail = "Did not find message in database."
               /\ UNCHANGED <<users, messages, message_seq, issued>>
    /\ (/\ req.op = "vote_for_message" /\ resp.status = 201 /\ req.vote = "up"
        /\ Acted("vote_for_message") /\ resp'.status = 201
        /\ req'.vote = "down" /\ req'.id = req.id)
       => \A m \in messages : \A q \in messages' :
             (m.id = req.id /\ q.id = req.id)
                => q.vote_count = m.vote_count - 1

\* C10: a posted message starts at vote_count 0; a vote on an existing
\* message adds 1 (up) or subtracts 1 (down) and touches nothing else, so
\* up then down restores the count; a vote on an unknown id is answered
\* NotFound and changes nothing.
C10_VoteArithmetic == [][C10_Step]_vars

\* C10 witness: the same caller as before voted down on a message that
\* stood at 2, which now stands at 1.
C10_Witness ==
    /\ req.op = "vote_for_message"
    /\ req.vote = "down"
    /\ resp.status = 201
    /\ \E m \in messages : m.id = req.id /\ m.vote_count = MaxVotes - 1
\* The request carries a token validate_token accepts.
Authenticated(request) ==
    validate_token(Presented(request), users, now).status = 200

\* The condition C11 puts on every step.
C11_Step ==
    /\ (Acted("delete_message") /\ Authenticated(req'))
       => IF \E m \in messages : m.id = req'.id
          THEN /\ resp'.status = 200
               /\ messages' = {m \in messages : m.id # req'.id}
               /\ Cardinality(messages') = Cardinality(messages) - 1
               /\ crud_get_message(messages', req'.id) = {}
               /\ UNCHANGED <<users, message_seq, issued>>
          ELSE /\ resp'.status = 400
               /\ resp'.detail = "Cannot find message ID."
               /\ UNCHANGED <<users, messages, message_seq, issued>>
    /\ (/\ req.op = "delete_message" /\ resp.status = 200
        /\ (Acted("delete_message") \/ Acted("vote_for_message"))
        /\ req'.id = req.id
        /\ Authenticated(req'))
       => /\ resp'.status = 400
          /\ resp'.detail \in {"Cannot find message ID.",
                               "Did not find message in database."}
          /\ UNCHANGED <<users, messages, message_seq, issued>>

\* C11: for an authenticated caller, deleting an unknown id is answered
\* NotFound and changes nothing; deleting an existing id removes that
\* message alone, whoever wrote it, and leaves the other messages and the
\* users as they were; a lookup, vote or delete of that id that follows is
\* answered NotFound.
C11_DeleteMessage == [][C11_Step]_vars

\* C11 witness: after the message with id 1 was deleted, a second delete
\* of id 1 by an authenticated caller was answered NotFound, and the
\* message of another user is still stored.
C11_Witness ==
    /\ req.op = "delete_message"
    /\ req.id = 1
    /\ resp.status = 400
    /\ resp.detail = "Cannot find message ID."
    /\ Authenticated(req)
    /\ message_seq > 2
    /\ Cardinality(messages) = 1
    /\ \A m \in messages :
          /\ m.id = 2
          /\ \E r \in users : r.id = m.author_id /\ r.username # Presented(req).sub

\* The key of the user a token names.
C12_KeyOf(request) ==
    (CHOOSE r \in users : r.username = Presented(request).sub).id

\* The condition C12 puts on every step.
C12_Step ==
    /\ (Acted("get_user_messages") /\ Authenticated(req'))
       => /\ resp'.status = 200
          /\ resp'.msgs = {m \in messages : m.author_id = C12_KeyOf(req')}
          /\ UNCHANGED <<users, messages, message_seq, issued>>
    /\ (Acted("post_message") /\ Authenticated(req'))
       => /\ resp'.status = 201
          /\ \E m \in messages' :
                /\ m \notin messages
                /\ m.author_id = C12_KeyOf(req')
                /\ messages' = messages \cup {m}
    /\ \A m \in messages : \A q \in messages' :
          m.id = q.id => q.author_id = m.author_id

\* C12: the list of a user's own messages is exactly the stored messages
\* whose author key is that user's, under any interleaving of posts, votes
\* and deletes of several users; a message's author key is the key of the
\* user whose token posted it and never changes.
C12_ListUserMessages == [][C12_Step]_vars

\* C12 witness: a user listed the own messages and got one of the two
\* stored messages, the other being of another author.
C12_Witness ==
    /\ req.op = "get_user_messages"
    /\ resp.status = 200
    /\ Cardinality(messages) = 2
    /\ Cardinality(resp.msgs) = 1
    /\ resp.msgs \subseteq messages
    /\ \E m \in messages \ resp.msgs : \A q \in resp.msgs : m.author_id # q.author_id
\* The endpoints of the message service.
C13_Gated ==
    {"get_all_messages", "post_message", "vote_for_message", "delete_message",
     "get_user_messages"}

\* The condition C13 puts on every step.
C13_Step ==
    /\ \A op \in C13_Gated \cup {"logout"} :
          (Acted(op) /\ ~C2_Accepts(Presented(req')))
          => LET v == validate_token(Presented(req'), users, now) IN
             /\ resp'.status \notin {200, 201}
             /\ resp'.status = v.status
             /\ resp'.detail = v.detail
             /\ resp'.msgs = {}
             /\ users' = v.users
             /\ UNCHANGED <<messages, message_seq, issued>>
    /\ (messages' # messages \/ message_seq' # message_seq)
       => /\ now' = now
          /\ req'.op \in C13_Gated
          /\ C2_Accepts(Presented(req'))
    /\ \A op \in C13_Gated :
          (Acted(op) /\ resp'.status \in {200, 201})
          => C2_Accepts(Presented(req'))
    /\ (Acted("logout") /\ resp'.status = 200)
       => C2_Accepts(Presented(req'))

\* C13: a message endpoint reads or changes the messages only when
\* validate_token accepted the request's token; when it did not, the
\* request returns validate_token's failure and no message is created,
\* changed, deleted or returned; Logout too answers success, and clears
\* the flag itself, only when validate_token accepted the token.
C13_GatedByValidateToken == [][C13_Step]_vars

\* C13 witness: the delete of a stored message with the unexpired token of
\* a logged-out user was refused with NotLoggedIn and the message is still
\* stored.
C13_Witness ==
    /\ req.op = "delete_message"
    /\ req.token \subseteq issued
    /\ resp.status = 400
    /\ resp.detail = "User is not logged in."
    /\ \E m \in messages : m.id = req.id
\* Successful up votes minus successful down votes on message i.
C14_Tally(i) ==
    Cardinality({p \in Workers : /\ call[p].op = "vote" /\ call[p].pc = "done"
                                 /\ call[p].status = 201 /\ call[p].id = i
                                 /\ call[p].vote = "up"})
    - Cardinality({p \in Workers : /\ call[p].op = "vote" /\ call[p].pc = "done"
                                   /\ call[p].status = 201 /\ call[p].id = i
                                   /\ call[p].vote = "down"})

\* C14 (as claimed): once every concurrent request has completed, the
\* vote_count of a message equals its initial value, zero, plus the up votes
\* that returned success minus the down votes that returned success: no
\* vote is lost.
C14_Original ==
    (\A p \in Workers : call[p].pc # "commit")
    => \A m \in messages : m.vote_count = C14_Tally(m.id)
\* C20 (as claimed): of the concurrent deletes of one message id at most
\* one returns success, the others NotFound, and no vote or delete that
\* passed validate_token ends in a failure other than NotFound (400).
C20_Original ==
    /\ \A i \in MessageIds(RaceMsgs) :
          Cardinality({p \in Workers : /\ call[p].op = "delete"
                                       /\ call[p].pc = "done"
                                       /\ call[p].status = 200
                                       /\ call[p].id = i}) <= 1
    /\ \A p \in Workers :
          (call[p].pc = "done" /\ call[p].seen # {})
          => call[p].status \in {200, 201, 400}

\* C19 (as claimed): of the concurrent logins with correct credentials of
\* one user who was logged out and has not logged out since, at most one
\* returns a token.
C19_Original ==
    \A u \in Usernames :
        Cardinality({p \in Workers : /\ call[p].op = "login"
                                     /\ call[p].pc = "done"
                                     /\ call[p].username = u
                                     /\ call[p].status = 200
                                     /\ call[p].token # {}}) <= 1
\* Every token minted for user n has expired.
C15_AllExpired(n) ==
    /\ \E t \in issued : t.sub = n
    /\ \A t \in issued : t.sub = n => t.exp < now

\* The condition C15 puts on every step.
C15_Step ==
    /\ now' # now => UNCHANGED <<users, messages, message_seq, issued>>
    /\ \A n \in Usernames :
          (LoggedIn(users, n) /\ C15_AllExpired(n))
          => /\ ~LoggedIn(users', n)
                => /\ now' = now
                   /\ req'.token # {}
                   /\ Presented(req').sig
                   /\ Presented(req').sub = n
                   /\ Presented(req').exp < now
                   /\ resp'.status = 400
                   /\ resp'.detail = "JWT Expired."
             /\ (/\ Acted("login")
                 /\ req'.username = n
                 /\ CorrectCredentials(users, n, req'.password))
                => /\ resp'.status = 200
                   /\ resp'.detail = "User already logged in."
                   /\ resp'.token = {}
                   /\ UNCHANGED <<users, issued>>

\* C15: a step of the clock changes nothing stored; a logged-in user whose
\* tokens have all expired stays logged in until a signed, expired token
\* with that user's subject is presented to validate_token, and until then
\* every Login with the user's correct credentials answers "User already
\* logged in." without a token.
C15_LazyExpiry == [][C15_Step]_vars

\* C15 witness: the clock has passed the expiry of the user's token, the
\* user is still logged in and the last Login, with the correct password,
\* was answered "User already logged in.".
C15_Witness ==
    /\ req.op = "login"
    /\ CorrectCredentials(users, req.username, req.password)
    /\ C15_AllExpired(req.username)
    /\ LoggedIn(users, req.username)
    /\ resp.detail = "User already logged in."
    /\ resp.token = {}
\* The condition C16 puts on every step.
C16_Step ==
    \A n \in Usernames :
        (/\ Acted("login")
         /\ req'.username = n
         /\ CorrectCredentials(users, n, req'.password)
         /\ C15_AllExpired(n))
        => /\ resp'.status = 200
           /\ resp'.token # {}

\* C16 (as claimed): once the last token minted for a registered user has
\* expired, a Login with the user's correct credentials returns a token,
\* not "User already logged in.", so a user who can only call Login is
\* never stuck.
C16_Original == [][C16_Step]_vars

\* The token of the current session of user n: the one minted last.
C17_Current(n) ==
    CHOOSE t \in issued :
        /\ t.sub = n
        /\ \A k \in issued : k.sub = n => k.exp <= t.exp

\* The condition C17 puts on every step.
C17_Step ==
    \A n \in Usernames :
        (/\ LoggedIn(users, n)
         /\ ~LoggedIn(users', n)
         /\ req'.token \subseteq issued)
        => \/ /\ Acted("logout")
              /\ Presented(req').sub = n
              /\ resp'.status = 200
           \/ C17_Current(n).exp < now

\* C17 (as claimed): a session ends (logged_in goes back to false) only by
\* the user's Logout with a valid token or after the session's own token
\* has expired; presenting a minted token of an earlier session, expired by
\* now, does not end it.
C17_Original == [][C17_Step]_vars

\* C18 (as claimed): at any time at most one minted token of a user is
\* accepted by validate_token; a token of a session ended by Logout is not
\* accepted again.
C18_Original ==
    \A n \in Usernames :
        Cardinality({t \in issued : /\ t.sub = n
                                    /\ validate_token(t, users, now).status = 200})
            <= 1
====
